---- MODULE Spec2Model ----
(***************************************************************************)
(* Process supervision core of src/ai-lab/ailab_manager.py (AILabManager). *)
(*                                                                         *)
(* One controller object supervises three services (ComfyUI, AI Toolkit,   *)
(* OneTrainer).  Each service s has two boolean flags, s_installing and    *)
(* s_starting, a tracked Popen handle s_process, two buttons and a log     *)
(* widget.  The install/start/stop/restart handlers run on the Tk event    *)
(* thread; the _run_ functions run on daemon threads.                      *)
(*                                                                         *)
(* The handlers are modelled as operations the UI collaborator may request *)
(* in any state; the button enable/disable state is kept as the code sets  *)
(* it.  The log keeps the result-bearing lines (process output, per-step   *)
(* ERROR/WARNING/success lines, exit and stop lines); banner and progress  *)
(* lines, which are appended unconditionally, are left out.  The log of a  *)
(* service is kept as one sequence per producer (event thread, run thread, *)
(* install thread, update thread): the widget shows an interleaving of     *)
(* them.                                                                   *)
(***************************************************************************)
EXTENDS Integers, Sequences, FiniteSets, TLC

\* ------------------------------------------------------------------ bounds
MaxRequests == 2     \* requests issued by the UI collaborator
MaxChildren == 1     \* child processes forked by service processes
MaxLines == 1        \* output lines written by one service process
MaxFaults == 1       \* failures injected by the environment (see CanFault)
MaxNodes == 1        \* custom-node folders handled by the ComfyUI installer

Services == {"comfyui", "aitoolkit", "onetrainer"}
\* Every accepted request starts at most one thread, and every run thread
\* spawns at most one root process.
MaxPids == MaxRequests + MaxChildren
Pids == 1..MaxPids
Tids == 1..MaxRequests
None == 0

VARIABLES
  active,       \* the services exercised in this behaviour
  psutil,       \* whether "import psutil" succeeds: unknown until first tried
  installing,   \* self.<s>_installing
  starting,     \* self.<s>_starting
  process,      \* self.<s>_process: None or the pid of the Popen handle
  install_btn,  \* <s>_install_btn enabled?
  start_btn,    \* <s>_start_btn enabled?
  log,          \* the lines appended to <s>_log_text, per producer
  dialogs,      \* messagebox.showerror / showinfo("Success") calls per service
  browser,      \* root.after(100, open_<s>_browser) callbacks pending / run
  fs,           \* the on-disk markers of each service
  procs,        \* the OS process table
  pipe,         \* unread lines of each root process's stdout pipe
  thr,          \* the daemon threads started by threading.Thread(...).start()
  ui,           \* what the Tk event thread is executing
  sigs,         \* terminate()/kill() calls of the latest termination run
  resp,         \* the response of the handler call that has just returned
  nreq,         \* number of requests accepted so far
  nfork,        \* number of child processes forked so far
  faults        \* number of environment failures so far

vars == <<active, psutil, installing, starting, process, install_btn, start_btn,
          log, dialogs, browser, fs, procs, pipe, thr, ui, sigs, resp, nreq, nfork, faults>>

ctl == <<installing, starting, process, install_btn, start_btn>>
env == <<active, psutil>>

\* ----------------------------------------------------------------- helpers
\* A log line: its kind and, for output and exit lines, the line number or
\* the return code.
Line(k, n) == [k |-> k, n |-> n]
\* A terminate()/kill() call on process p; ok is 0 when p was gone already.
Sig(kind, p, ok) == [k |-> kind, p |-> p, ok |-> ok]

NoProc == [st |-> "none", root |-> 0, parent |-> 0, code |-> 0, out |-> 0, node |-> FALSE,
           svc |-> "none"]
\* A thread: what it runs, its position, the pid it spawned (run threads), the
\* index of its current step and the result of its last command (installers).
NoThread == [kind |-> "none", svc |-> "none", pc |-> "done", pid |-> 0, i |-> 0,
             res |-> "none"]
NoResp == [svc |-> "none", op |-> "none", result |-> "none"]
UiIdle == [op |-> "idle", svc |-> "none", pc |-> "idle", todo |-> <<>>, parent |-> 0,
           enum |-> <<>>, waited |-> <<>>]

Alive(p) == procs[p].st = "alive"
Dead(p) == procs[p].st = "dead"

FreeTids == {t \in Tids : thr[t].kind = "none"}
\* The OS hands out a pid no process record uses.
NewPid == CHOOSE p \in Pids : procs[p].st = "none" /\ \A q \in Pids : procs[q].st = "none" => p <= q
NewTid == CHOOSE t \in FreeTids : \A u \in FreeTids : t <= u

\* Popen.poll(): None while the process runs, else its return code.
Poll(p) == IF Alive(p) THEN "running" ELSE "exited"

\* The processes holding the write end of root r's stdout pipe.
Holders(r) == {p \in Pids : Alive(p) /\ procs[p].root = r}

RECURSIVE SortPids(_)
SortPids(S) == IF S = {} THEN <<>>
               ELSE LET m == CHOOSE x \in S : \A y \in S : x <= y
                    IN <<m>> \o SortPids(S \ {m})

RECURSIVE AncestorsAlive(_, _)
\* p's chain of parents up to root r is alive (psutil builds the tree from
\* the parent pids of the live processes).
AncestorsAlive(p, r) ==
  IF p = r THEN Alive(r)
  ELSE /\ procs[p].parent # 0
       /\ Alive(procs[p].parent)
       /\ AncestorsAlive(procs[p].parent, r)

\* psutil.Process(pid).children(recursive=True)
Children(r) == SortPids({p \in Pids : p # r /\ Alive(p) /\ procs[p].root = r
                                      /\ AncestorsAlive(p, r)})

Goto(t, pc) == thr' = [thr EXCEPT ![t].pc = pc]
\* Variant: a line is put in front of the log.
LogFront(s, k, line) == log' = [log EXCEPT ![s][k] = <<line>> \o @]

Log(s, k, line) == log' = [log EXCEPT ![s][k] = Append(@, line)]
Range(q) == {q[i] : i \in 1..Len(q)}

\* What a completed installation leaves on disk: the install directory with
\* its venv (ComfyUI, OneTrainer), or the ai-toolkit directory and the
\* launcher script Start-AI-Toolkit.bat next to it.
Installed(s) == IF s = "aitoolkit" THEN {"dir", "bat"} ELSE {"dir", "venv"}

\* ------------------------------------------------------------------- Init
Init ==
  /\ active \in {{s} : s \in Services}
  /\ psutil = "unknown"
  /\ installing = [s \in Services |-> FALSE]
  /\ starting = [s \in Services |-> FALSE]
  /\ process = [s \in Services |-> None]
  /\ install_btn = [s \in Services |-> TRUE]
  /\ start_btn = [s \in Services |-> TRUE]
  /\ log = [s \in Services |-> [ui |-> <<>>, run |-> <<>>, inst |-> <<>>, upd |-> <<>>]]
  /\ dialogs = [s \in Services |-> [err |-> 0, ok |-> 0]]
  /\ browser = [s \in Services |-> [pending |-> 0, opened |-> 0]]
  /\ fs \in {f \in [Services -> SUBSET {"dir", "venv", "bat"}] :
               \A s \in Services : \/ f[s] = {}
                                    \/ (s \in active /\ f[s] = Installed(s))}
  /\ procs = [p \in Pids |-> NoProc]
  /\ pipe = [p \in Pids |-> <<>>]
  /\ thr = [t \in Tids |-> NoThread]
  /\ ui = UiIdle
  /\ sigs = <<>>
  /\ resp = NoResp
  /\ nreq = 0
  /\ nfork = 0
  /\ faults = 0

\* The environment may make something fail that usually succeeds: a command
\* exits non-zero or times out, a call raises, a service exits with an error.
CanFault == faults < MaxFaults
Fault == faults' = faults + 1

\* Pids some handle or loop variable of the controller still refers to.
Referenced == {process[s] : s \in Services} \cup {thr[t].pid : t \in Tids}
              \cup {ui.parent} \cup Range(ui.todo) \cup Range(ui.enum)
              \cup Range(ui.waited)

\* Roots whose whole tree has exited and is referenced nowhere.
Garbage == {r \in Pids : /\ procs[r].st = "dead" /\ procs[r].root = r
                         /\ \A p \in Pids : procs[p].root = r =>
                               /\ ~Alive(p)
                               /\ p \notin Referenced}

\* Bookkeeping steps of the model come first: the response of a handler call
\* is visible for one state (Ack clears it), and exited process trees nobody
\* refers to are dropped from the process table (Reap).
\* A timer callback that is due runs as soon as the event thread is idle.
Due == ui.op = "idle" /\ \E s \in Services : browser[s].pending > 0
Quiet == resp = NoResp /\ ~Due /\ Garbage = {}

\* A callback is invoked on the Tk event thread, which runs one at a time.
UiFree(s) == s \in active /\ ui.op = "idle" /\ Quiet

\* The UI collaborator issues requests until MaxRequests have been accepted.
CanRequest(s) == UiFree(s) /\ nreq < MaxRequests

Respond(s, op, result) == resp' = [svc |-> s, op |-> op, result |-> result]

\* Requests that change nothing are free; those that start work are counted.
Accept == nreq' = nreq + 1

Ack ==
  /\ resp # NoResp
  /\ resp' = NoResp
  /\ UNCHANGED <<env, ctl, log, dialogs, browser, fs, procs, pipe, thr, ui, sigs, nreq, nfork, faults>>

\* ------------------------------------------------------------ filesystem
\* The marker start_<s> probes: the install directory (ComfyUI, OneTrainer)
\* or the launcher script Start-AI-Toolkit.bat.
StartMarker(s) == IF s = "aitoolkit" THEN "bat" ELSE "dir"

\* What Popen needs to launch the service: the venv interpreter inside the
\* install directory, or the launcher script.
Launchable(s) == IF s = "aitoolkit" THEN "bat" \in fs[s]
                 ELSE {"dir", "venv"} \subseteq fs[s]

\* ------------------------------------------------------- install pipelines
\* One external command (or file operation) of an installer.  kind is the way
\* the code treats its result, needs the marker its working directory or
\* executable lives in, excl a marker that makes the command itself fail (git
\* clone into an existing directory), makes the marker it creates.
Step(kind, needs, excl, makes) ==
  [kind |-> kind, needs |-> needs, excl |-> excl, makes |-> makes]

\* kinds:
\*   "fatal_ret"  returncode # 0: log ERROR, showerror, return
\*   "fatal_log"  returncode # 0: log ERROR, raise Exception
\*   "check"      subprocess.run(..., check=True); a download with its curl
\*                fallback counts as one step that fails when both fail
\*   "cmd"        self._run_command: "ERROR: <stderr>" logged when the command
\*                exits non-zero with stderr text; execution goes on
\*   "ignored"    the result is not looked at
\*   "probe"      node --version: WARNING logged, winget run, goes on
\*   "node_clone" WARNING logged, goes on
\*   "node_dep"   timeout=300; WARNING when non-zero with stderr text, on
\*                timeout and on any exception; "Completed successfully" else
\*   "script"     files written with open(...)
\*   "rmtree"     shutil.rmtree(install_path) when it exists
Rep(st, n) == [i \in 1..n |-> st]

\* for pkg in ["poetry-core", "wheel", "triton-windows==3.4.0.post20", "hf_xet"]
ExtraPackages == 4

ComfyuiSteps ==
  <<Step("fatal_ret", "none", "dir", "dir"),     \* git clone ComfyUI
    Step("fatal_ret", "dir", "none", "venv"),    \* py -3.12 -m venv venv
    Step("cmd", "venv", "none", "none"),         \* pip install --upgrade pip
    Step("cmd", "venv", "none", "none"),         \* torch torchvision torchaudio
    Step("ignored", "venv", "none", "none"),     \* import torch
    Step("cmd", "venv", "none", "none"),         \* ninja packaging wheel
    Step("cmd", "venv", "none", "none"),         \* sageattention
    Step("cmd", "venv", "none", "none"),         \* requirements.txt
    Step("cmd", "venv", "none", "none")>>        \* soundfile
  \o Rep(Step("node_clone", "dir", "none", "none"), MaxNodes)
  \o Rep(Step("node_dep", "dir", "none", "none"), MaxNodes)

AitoolkitSteps ==
  <<Step("fatal_ret", "none", "none", "none"),   \* git --version
    Step("probe", "none", "none", "none"),       \* node --version
    Step("check", "none", "none", "none"),       \* download python zip
    Step("check", "none", "none", "none"),       \* tar -xf
    Step("check", "none", "none", "none"),       \* download get-pip.py
    Step("check", "none", "none", "none"),       \* python get-pip.py
    Step("check", "none", "none", "none"),       \* pip install uv
    Step("check", "none", "none", "none"),       \* pip install --upgrade pip
    Step("check", "none", "none", "none"),       \* download python libs
    Step("check", "none", "none", "none"),       \* tar -xf
    Step("cmd", "none", "dir", "dir"),           \* git clone ai-toolkit
    Step("cmd", "dir", "none", "none"),          \* torch
    Step("cmd", "dir", "none", "none")>>         \* requirements.txt
  \o Rep(Step("cmd", "dir", "none", "none"), ExtraPackages)
  \o <<Step("script", "none", "none", "bat")>>   \* _create_startup_scripts

OnetrainerSteps ==
  <<Step("rmtree", "none", "none", "none"),      \* shutil.rmtree(install_path)
    Step("fatal_log", "none", "dir", "dir"),     \* git clone OneTrainer
    Step("fatal_log", "dir", "none", "venv"),    \* python -m venv
    Step("ignored", "venv", "none", "none"),     \* pip install --upgrade pip
    Step("cmd", "venv", "none", "none")>>        \* requirements.txt

Steps(s) == IF s = "comfyui" THEN ComfyuiSteps
            ELSE IF s = "aitoolkit" THEN AitoolkitSteps
            ELSE OnetrainerSteps

\* The ways one step can end.  "quiet" is a non-zero exit with nothing on
\* stderr, "raise" an exception out of subprocess.run or the file operation.
Outcomes(st, f) ==
  IF st.kind = "rmtree" /\ "dir" \notin f THEN {"skip"}
  ELSE IF st.needs # "none" /\ st.needs \notin f THEN {"raise"}
  ELSE IF st.excl # "none" /\ st.excl \in f THEN {"fail"}
  ELSE {"ok"} \cup
       (IF ~CanFault THEN {}
        ELSE IF st.kind \in {"script", "rmtree"} THEN {"raise"}
        ELSE IF st.kind = "node_dep" THEN {"fail", "quiet", "timeout", "raise"}
        ELSE IF st.kind = "cmd" THEN {"fail", "quiet", "raise"}
        ELSE {"fail", "raise"})

\* Variant: no failure ends the installation.
StepExitLenient(st, o) == IF o = "raise" /\ st.kind # "node_dep" THEN "except" ELSE "next"

\* Variant: every failure ends the installation.
StepExitStrict(st, o) == IF o \in {"ok", "skip"} THEN "next" ELSE "except"

\* Variant: a timeout ends the installation.
StepExitTimeoutAborts(st, o) ==
  IF o \in {"ok", "skip"} THEN "next"
  ELSE IF o = "timeout" THEN "except"
  ELSE IF st.kind = "node_dep" THEN "next"
  ELSE IF o = "raise" THEN "except"
  ELSE IF st.kind = "fatal_ret" THEN "return"
  ELSE IF st.kind \in {"fatal_log", "check"} THEN "except"
  ELSE "next"

\* Where the installer goes after the step: "next", "return" (to the finally
\* block) or "except".
StepExit(st, o) ==
  IF o \in {"ok", "skip"} THEN "next"
  ELSE IF st.kind = "node_dep" THEN "next"
  ELSE IF o = "raise" THEN "except"
  ELSE IF st.kind = "fatal_ret" THEN "return"
  ELSE IF st.kind \in {"fatal_log", "check"} THEN "except"
  ELSE "next"

\* The kinds whose non-zero exit ends the installation, and those whose
\* non-zero exit is logged at most.
FatalKinds == {"fatal_ret", "fatal_log", "check"}
WarnKinds == {"cmd", "probe", "node_clone", "node_dep"}

\* The result-bearing line the step appends to the log, if any.
StepLine(st, o, i) ==
  IF st.kind = "node_dep"
  THEN IF o \in {"ok", "quiet"} THEN <<Line("completed", i)>> ELSE <<Line("WARNING", i)>>
  ELSE IF o \in {"ok", "skip", "raise"} THEN <<>>
  ELSE IF st.kind \in {"fatal_ret", "fatal_log"} THEN <<Line("step_error", i)>>
  ELSE IF st.kind = "cmd" THEN IF o = "fail" THEN <<Line("step_error", i)>> ELSE <<>>
  ELSE IF st.kind \in {"probe", "node_clone"} THEN <<Line("WARNING", i)>>
  ELSE <<>>

\* The markers on disk after the step.
StepFs(st, o, f) ==
  IF o # "ok" THEN f
  ELSE IF st.kind = "rmtree" THEN f \ {"dir", "venv"}
  ELSE IF st.makes = "none" THEN f
  ELSE f \cup {st.makes}

\* ------------------------------------------------------------- install_<s>
\* install_comfyui offers to delete a complete installation and deletes it on
\* the event thread; install_aitoolkit refuses when the ai-toolkit folder
\* exists; install_onetrainer asks and leaves the removal to the installer.
launch_install(s) ==
  /\ Accept
  /\ Respond(s, "install", "accepted")
  /\ install_btn' = [install_btn EXCEPT ![s] = FALSE]
  /\ installing' = [installing EXCEPT ![s] = TRUE]
  /\ thr' = [thr EXCEPT ![NewTid] =
               [NoThread EXCEPT !.kind = "inst", !.svc = s, !.pc = "step", !.i = 1]]

no_install(s, result) ==
  /\ Respond(s, "install", result)
  /\ UNCHANGED <<installing, install_btn, thr, nreq, fs, dialogs, faults>>

\* Variant: install_<s>() without its "already in progress" check.
install_unguarded(s) ==
  /\ CanRequest(s)
  /\ IF s = "aitoolkit"
     THEN IF "dir" \in fs[s] THEN no_install(s, "already_exists")
          ELSE launch_install(s) /\ UNCHANGED <<fs, dialogs, faults>>
     ELSE IF s = "onetrainer"
     THEN \/ launch_install(s) /\ UNCHANGED <<fs, dialogs, faults>>
          \/ "dir" \in fs[s] /\ no_install(s, "declined")
     ELSE IF {"dir", "venv"} \subseteq fs[s]
     THEN \/ no_install(s, "declined")
          \/ /\ launch_install(s)
             /\ fs' = [fs EXCEPT ![s] = @ \ {"dir", "venv"}]
             /\ UNCHANGED <<dialogs, faults>>
          \/ /\ CanFault /\ Fault
             /\ Respond(s, "install", "remove_failed")
             /\ dialogs' = [dialogs EXCEPT ![s].err = @ + 1]
             /\ UNCHANGED <<installing, install_btn, thr, nreq, fs>>
     ELSE launch_install(s) /\ UNCHANGED <<fs, dialogs, faults>>
  /\ UNCHANGED <<env, starting, process, start_btn, log, browser, procs, pipe, ui, sigs,
                 nfork>>

install(s) ==
  /\ CanRequest(s)
  /\ IF installing[s] THEN no_install(s, "already_installing")
     ELSE IF s = "aitoolkit"
     THEN IF "dir" \in fs[s] THEN no_install(s, "already_exists")
          ELSE launch_install(s) /\ UNCHANGED <<fs, dialogs, faults>>
     ELSE IF s = "onetrainer"
     THEN \/ launch_install(s) /\ UNCHANGED <<fs, dialogs, faults>>
          \/ "dir" \in fs[s] /\ no_install(s, "declined")
     ELSE IF {"dir", "venv"} \subseteq fs[s]
     THEN \/ no_install(s, "declined")
          \/ /\ launch_install(s)
             /\ fs' = [fs EXCEPT ![s] = @ \ {"dir", "venv"}]
             /\ UNCHANGED <<dialogs, faults>>
          \/ /\ CanFault /\ Fault
             /\ Respond(s, "install", "remove_failed")
             /\ dialogs' = [dialogs EXCEPT ![s].err = @ + 1]
             /\ UNCHANGED <<installing, install_btn, thr, nreq, fs>>
     ELSE launch_install(s) /\ UNCHANGED <<fs, dialogs, faults>>
  /\ UNCHANGED <<env, starting, process, start_btn, log, browser, procs, pipe, ui, sigs,
                 nfork>>

\* ------------------------------------------- _run_<s>_installation threads
IsInst(t, s) == thr[t].kind = "inst" /\ thr[t].svc = s /\ Quiet

\* The installer runs its next command and deals with the result.
inst_step(t, s) ==
  /\ IsInst(t, s) /\ thr[t].pc = "step" /\ thr[t].i <= Len(Steps(s))
  /\ LET i == thr[t].i
         st == Steps(s)[i]
     IN \E o \in Outcomes(st, fs[s]) :
          /\ faults' = IF o \in {"ok", "skip"} \/ Outcomes(st, fs[s]) = {o}
                       THEN faults ELSE faults + 1
          /\ fs' = [fs EXCEPT ![s] = StepFs(st, o, @)]
          /\ log' = [log EXCEPT ![s].inst = @ \o StepLine(st, o, i)]
          /\ dialogs' = IF StepExit(st, o) = "return"
                        THEN [dialogs EXCEPT ![s].err = @ + 1] ELSE dialogs
          /\ thr' = [thr EXCEPT ![t].pc = IF StepExit(st, o) = "next" THEN "step"
                                          ELSE IF StepExit(st, o) = "return" THEN "fin1"
                                          ELSE "except",
                                ![t].i = IF StepExit(st, o) = "next" THEN i + 1 ELSE i,
                                ![t].res = o]
  /\ UNCHANGED <<env, ctl, browser, procs, pipe, ui, sigs, resp, nreq, nfork>>

\* All steps done: "Installation Complete!" and messagebox.showinfo("Success").
inst_success(t, s) ==
  /\ IsInst(t, s) /\ thr[t].pc = "step" /\ thr[t].i > Len(Steps(s))
  /\ Log(s, "inst", Line("complete", 0))
  /\ dialogs' = [dialogs EXCEPT ![s].ok = @ + 1]
  /\ Goto(t, "fin1")
  /\ UNCHANGED <<env, ctl, browser, fs, procs, pipe, ui, sigs, resp, nreq, nfork,
                 faults>>

\* except Exception as e: log_to_tab("ERROR: ..."); messagebox.showerror(...)
inst_except(t, s) ==
  /\ IsInst(t, s) /\ thr[t].pc = "except"
  /\ Log(s, "inst", Line("ERROR", 0))
  /\ dialogs' = [dialogs EXCEPT ![s].err = @ + 1]
  /\ Goto(t, "fin1")
  /\ UNCHANGED <<env, ctl, browser, fs, procs, pipe, ui, sigs, resp, nreq, nfork,
                 faults>>

\* finally: self.<s>_installing = False
inst_fin1(t, s) ==
  /\ IsInst(t, s) /\ thr[t].pc = "fin1"
  /\ installing' = [installing EXCEPT ![s] = FALSE]
  /\ Goto(t, "fin2")
  /\ UNCHANGED <<env, starting, process, install_btn, start_btn, log, dialogs,
                 browser, fs, procs, pipe, ui, sigs, resp, nreq, nfork, faults>>

\* Variant: the installer ends without enabling the button again.
inst_fin2_keeps_disabled(t, s) ==
  /\ IsInst(t, s) /\ thr[t].pc = "fin2"
  /\ thr' = [thr EXCEPT ![t] = NoThread]
  /\ UNCHANGED <<env, ctl, log, dialogs,
                 browser, fs, procs, pipe, ui, sigs, resp, nreq, nfork, faults>>

\* finally: self.<s>_install_btn.state(['!disabled'])
inst_fin2(t, s) ==
  /\ IsInst(t, s) /\ thr[t].pc = "fin2"
  /\ install_btn' = [install_btn EXCEPT ![s] = TRUE]
  /\ thr' = [thr EXCEPT ![t] = NoThread]
  /\ UNCHANGED <<env, installing, starting, process, start_btn, log, dialogs,
                 browser, fs, procs, pipe, ui, sigs, resp, nreq, nfork, faults>>

InstStep(t, s) ==
  \/ inst_step(t, s) \/ inst_success(t, s) \/ inst_except(t, s)
  \/ inst_fin1(t, s) \/ inst_fin2(t, s)

\* ------------------------------------------- update_<s>, _run_<s>_update
\* AI Toolkit and OneTrainer have an Update button: the handler probes the
\* update script (written with the launcher script) or the install directory,
\* asks for confirmation and starts a thread.  Neither reads or writes a flag
\* or the process handle.
Updatable == {"aitoolkit", "onetrainer"}

update(s) ==
  /\ s \in Updatable /\ CanRequest(s)
  /\ IF StartMarker(s) \notin fs[s]
     THEN Respond(s, "update", "not_installed") /\ UNCHANGED <<thr, nreq>>
     ELSE \/ Respond(s, "update", "declined") /\ UNCHANGED <<thr, nreq>>
          \/ /\ Respond(s, "update", "accepted")
             /\ Accept
             /\ thr' = [thr EXCEPT ![NewTid] =
                          [NoThread EXCEPT !.kind = "upd", !.svc = s, !.pc = "run"]]
  /\ UNCHANGED <<env, ctl, log, dialogs, browser, fs, procs, pipe, ui, sigs, nfork,
                 faults>>

IsUpd(t, s) == thr[t].kind = "upd" /\ thr[t].svc = s /\ Quiet

\* The update command(s) run; the result is logged and shown: "Update
\* completed successfully!" with showinfo("Success"), "Update completed with
\* warnings." with showwarning, or "ERROR: ..." with showerror from the
\* exception handler.
upd_run(t, s) ==
  /\ IsUpd(t, s) /\ thr[t].pc = "run"
  /\ \E o \in {"ok"} \cup (IF CanFault THEN {"fail", "raise"} ELSE {}) :
       /\ faults' = IF o = "ok" THEN faults ELSE faults + 1
       /\ Log(s, "upd", Line(IF o = "ok" THEN "update_ok"
                             ELSE IF o = "fail" THEN "update_warn" ELSE "ERROR", 0))
       /\ dialogs' = IF o = "ok" THEN [dialogs EXCEPT ![s].ok = @ + 1]
                     ELSE IF o = "raise" THEN [dialogs EXCEPT ![s].err = @ + 1]
                     ELSE dialogs
       /\ thr' = [thr EXCEPT ![t].pc = "fin", ![t].res = o]
  /\ UNCHANGED <<env, ctl, browser, fs, procs, pipe, ui, sigs, resp, nreq, nfork>>

\* finally: self.<s>_update_btn.state(['!disabled'])
upd_fin(t, s) ==
  /\ IsUpd(t, s) /\ thr[t].pc = "fin"
  /\ thr' = [thr EXCEPT ![t] = NoThread]
  /\ UNCHANGED <<env, ctl, log, dialogs, browser, fs, procs, pipe, ui, sigs, resp,
                 nreq, nfork, faults>>

UpdStep(t, s) == upd_run(t, s) \/ upd_fin(t, s)

\* --------------------------------------------------------------- start_<s>
\* Variant: start_<s>() without its "already starting" check.
start_call_unguarded(s) ==
  IF StartMarker(s) \notin fs[s]
  THEN /\ Respond(s, "start", "not_installed")
       /\ UNCHANGED <<ctl, thr>>
  ELSE /\ Respond(s, "start", "accepted")
       /\ start_btn' = [start_btn EXCEPT ![s] = FALSE]
       /\ starting' = [starting EXCEPT ![s] = TRUE]
       /\ thr' = [thr EXCEPT ![NewTid] =
                    [NoThread EXCEPT !.kind = "run", !.svc = s, !.pc = "spawn"]]
       /\ UNCHANGED <<installing, process, install_btn>>

\* Variant: start_<s>() without the probe of the install marker.
start_call_unprobed(s) ==
  IF starting[s]
  THEN /\ Respond(s, "start", "already_starting")
       /\ UNCHANGED <<ctl, thr>>
  ELSE /\ Respond(s, "start", "accepted")
       /\ start_btn' = [start_btn EXCEPT ![s] = FALSE]
       /\ starting' = [starting EXCEPT ![s] = TRUE]
       /\ thr' = [thr EXCEPT ![NewTid] =
                    [NoThread EXCEPT !.kind = "run", !.svc = s, !.pc = "spawn"]]
       /\ UNCHANGED <<installing, process, install_btn>>

\* The body of start_<s>(), called by the Start button and by restart_<s>().
start_call(s) ==
  IF starting[s]
  THEN /\ Respond(s, "start", "already_starting")
       /\ UNCHANGED <<ctl, thr>>
  ELSE IF StartMarker(s) \notin fs[s]
  THEN /\ Respond(s, "start", "not_installed")
       /\ UNCHANGED <<ctl, thr>>
  ELSE /\ Respond(s, "start", "accepted")
       /\ start_btn' = [start_btn EXCEPT ![s] = FALSE]
       /\ starting' = [starting EXCEPT ![s] = TRUE]
       /\ thr' = [thr EXCEPT ![NewTid] =
                    [NoThread EXCEPT !.kind = "run", !.svc = s, !.pc = "spawn"]]
       /\ UNCHANGED <<installing, process, install_btn>>

start(s) ==
  /\ CanRequest(s)
  /\ IF starting[s] \/ StartMarker(s) \notin fs[s] THEN UNCHANGED nreq ELSE Accept
  /\ start_call(s)
  /\ UNCHANGED <<env, log, dialogs, browser, fs, procs, pipe, ui, sigs, nfork,
                 faults>>

\* ----------------------------------------------------------------- _run_<s>
IsRun(t, s) == thr[t].kind = "run" /\ thr[t].svc = s /\ Quiet

\* Variant: the run thread schedules no browser callback.
run_spawn_no_browser(t, s) ==
  /\ IsRun(t, s) /\ thr[t].pc = "spawn"
  /\ \/ /\ Launchable(s)
        /\ LET p == NewPid IN
           /\ procs' = [procs EXCEPT ![p] =
                          [st |-> "alive", root |-> p, parent |-> 0, code |-> 0,
                           out |-> 0, node |-> FALSE, svc |-> s]]
           /\ process' = [process EXCEPT ![s] = p]
           /\ thr' = [thr EXCEPT ![t].pc = "pump", ![t].pid = p]
        /\ UNCHANGED <<faults, browser>>
     \/ /\ ~Launchable(s)
        /\ Goto(t, "except")
        /\ UNCHANGED <<procs, process, faults, browser>>
     \/ /\ Launchable(s) /\ CanFault /\ Fault
        /\ Goto(t, "except")
        /\ UNCHANGED <<procs, process, browser>>
  /\ UNCHANGED <<env, installing, starting, install_btn, start_btn, log, dialogs,
                 fs, pipe, ui, sigs, resp, nreq, nfork>>

\* subprocess.Popen(...): the handle is stored in self.<s>_process; then
\* time.sleep(2) and self.root.after(100, open_<s>_browser)  (AI Toolkit
\* sleeps 3 s and schedules nothing).
run_spawn(t, s) ==
  /\ IsRun(t, s) /\ thr[t].pc = "spawn"
  /\ \/ /\ Launchable(s)
        /\ LET p == NewPid IN
           /\ procs' = [procs EXCEPT ![p] =
                          [st |-> "alive", root |-> p, parent |-> 0, code |-> 0,
                           out |-> 0, node |-> FALSE, svc |-> s]]
           /\ process' = [process EXCEPT ![s] = p]
           /\ thr' = [thr EXCEPT ![t].pc = "pump", ![t].pid = p]
        /\ browser' = IF s = "aitoolkit" THEN browser
                      ELSE [browser EXCEPT ![s].pending = @ + 1]
        /\ UNCHANGED faults
     \/ /\ ~Launchable(s)
        /\ Goto(t, "except")
        /\ UNCHANGED <<procs, process, faults, browser>>
     \/ /\ Launchable(s) /\ CanFault /\ Fault
        /\ Goto(t, "except")
        /\ UNCHANGED <<procs, process, browser>>
  /\ UNCHANGED <<env, installing, starting, install_btn, start_btn, log, dialogs,
                 fs, pipe, ui, sigs, resp, nreq, nfork>>

\* The pump loop has ended (break or end-of-stream): stdout.close();
\* return_code = self.<s>_process.wait(); the exit line is logged.  The root
\* has exited by then, so wait() returns at once.
PumpEnd(t, s) ==
  /\ Log(s, "run", Line("exit", procs[thr[t].pid].code))
  /\ Goto(t, "fin1")

\* One iteration of
\*   for line in iter(self.<s>_process.stdout.readline, ''):
\*       if self.<s>_process.poll() is not None: break
\*       self.log_to_tab(s, line.rstrip())
\* given the line readline returned.
PumpLine(t, s, line) ==
  IF Poll(process[s]) = "exited"
  THEN PumpEnd(t, s)
  ELSE /\ UNCHANGED thr
       /\ Log(s, "run", Line("out", line))

\* readline blocks until a line is there or every holder of the pipe's write
\* end has exited (end-of-stream, which ends the loop).
run_pump(t, s) ==
  /\ IsRun(t, s) /\ thr[t].pc = "pump"
  /\ LET r == thr[t].pid IN
     \/ /\ pipe[r] # <<>>
        /\ IF process[s] = None
           THEN Goto(t, "except") /\ UNCHANGED log
           ELSE PumpLine(t, s, Head(pipe[r]))
        /\ pipe' = [pipe EXCEPT ![r] = IF thr'[t].pc = "pump" THEN Tail(@) ELSE <<>>]
     \/ /\ pipe[r] = <<>> /\ Holders(r) = {}
        /\ PumpEnd(t, s)
        /\ UNCHANGED pipe
  /\ UNCHANGED <<env, ctl, dialogs, browser, fs, procs, ui, sigs, resp, nreq,
                 nfork, faults>>

\* Any statement of the try body after Popen may raise (a Tcl error from
\* root.after or log_to_tab on a worker thread, an I/O error on the pipe).
run_raise(t, s) ==
  /\ IsRun(t, s) /\ thr[t].pc = "pump"
  /\ CanFault /\ Fault
  /\ Goto(t, "except")
  /\ UNCHANGED <<env, ctl, log, dialogs, browser, fs, procs, pipe, ui, sigs, resp,
                 nreq, nfork>>

\* except Exception as e: log_to_tab("ERROR: ..."); messagebox.showerror(...)
run_except(t, s) ==
  /\ IsRun(t, s) /\ thr[t].pc = "except"
  /\ Log(s, "run", Line("ERROR", 0))
  /\ dialogs' = [dialogs EXCEPT ![s].err = @ + 1]
  /\ Goto(t, "fin1")
  /\ UNCHANGED <<env, ctl, browser, fs, procs, pipe, ui, sigs, resp, nreq, nfork, faults>>

\* Variant: the finally block leaves the handle in place.
run_fin1_keeps_handle(t, s) ==
  /\ IsRun(t, s) /\ thr[t].pc = "fin1"
  /\ Goto(t, "fin2")
  /\ UNCHANGED <<env, ctl, log, dialogs, browser, fs, procs, pipe, ui, sigs, resp, nreq,
                 nfork, faults>>

\* Variant: the finally block resets the flag where the code clears the handle.
run_fin1_resets_flag(t, s) ==
  /\ IsRun(t, s) /\ thr[t].pc = "fin1"
  /\ starting' = [starting EXCEPT ![s] = FALSE]
  /\ Goto(t, "fin2")
  /\ UNCHANGED <<env, installing, process, install_btn, start_btn, log, dialogs,
                 browser, fs, procs, pipe, ui, sigs, resp, nreq, nfork, faults>>

\* finally: self.<s>_process = None
run_fin1(t, s) ==
  /\ IsRun(t, s) /\ thr[t].pc = "fin1"
  /\ process' = [process EXCEPT ![s] = None]
  /\ Goto(t, "fin2")
  /\ UNCHANGED <<env, installing, starting, install_btn, start_btn, log, dialogs,
                 browser, fs, procs, pipe, ui, sigs, resp, nreq, nfork, faults>>

\* Variant: the flag is not reset.
KeepStarting(s) == UNCHANGED starting

\* finally: (AI Toolkit: time.sleep(2);) self.<s>_starting = False
ClearStarting(s) == starting' = [starting EXCEPT ![s] = FALSE]

run_fin2(t, s) ==
  /\ IsRun(t, s) /\ thr[t].pc = "fin2"
  /\ ClearStarting(s)
  /\ Goto(t, "fin3")
  /\ UNCHANGED <<env, installing, process, install_btn, start_btn, log, dialogs,
                 browser, fs, procs, pipe, ui, sigs, resp, nreq, nfork, faults>>

\* finally: self.<s>_start_btn.state(['!disabled'])
run_fin3(t, s) ==
  /\ IsRun(t, s) /\ thr[t].pc = "fin3"
  /\ start_btn' = [start_btn EXCEPT ![s] = TRUE]
  /\ thr' = [thr EXCEPT ![t] = NoThread]
  /\ UNCHANGED <<env, installing, starting, process, install_btn, log, dialogs,
                 browser, fs, procs, pipe, ui, sigs, resp, nreq, nfork, faults>>

\* open_<s>_browser, run by the event loop when the after() timer fires.
open_browser(s) ==
  /\ resp = NoResp /\ Garbage = {} /\ ui.op = "idle"
  /\ browser[s].pending > 0
  /\ browser' = [browser EXCEPT ![s].pending = @ - 1, ![s].opened = @ + 1]
  /\ UNCHANGED <<env, ctl, log, dialogs, fs, procs, pipe, thr, ui, sigs, resp, nreq, nfork, faults>>

\* ------------------------------------------------------ the OS processes
\* The read end of root r's stdout pipe is open while the thread that spawned
\* r has not reached stdout.close().
PipeOpen(r) == \E t \in Tids : /\ thr[t].kind = "run" /\ thr[t].pid = r
                               /\ thr[t].pc = "pump"

\* A root process writes its next output line to its stdout pipe.
ProcWrite(r) ==
  /\ Alive(r) /\ procs[r].root = r /\ procs[r].out < MaxLines
  /\ PipeOpen(r) /\ Quiet
  /\ pipe' = [pipe EXCEPT ![r] = Append(@, procs[r].out + 1)]
  /\ procs' = [procs EXCEPT ![r].out = @ + 1]
  /\ UNCHANGED <<env, ctl, log, dialogs, browser, fs, thr, ui, sigs, resp, nreq,
                 nfork, faults>>

\* A process exits on its own, with return code 0 ...
ProcExit(p) ==
  /\ Alive(p) /\ Quiet
  /\ procs' = [procs EXCEPT ![p].st = "dead", ![p].code = 0]
  /\ UNCHANGED <<env, ctl, log, dialogs, browser, fs, pipe, thr, ui, sigs, resp,
                 nreq, nfork, faults>>

\* ... or a service's root process ends with an error code.
ProcCrash(p) ==
  /\ Alive(p) /\ procs[p].root = p /\ Quiet
  /\ CanFault /\ Fault
  /\ procs' = [procs EXCEPT ![p].st = "dead", ![p].code = 1]
  /\ UNCHANGED <<env, ctl, log, dialogs, browser, fs, pipe, thr, ui, sigs, resp,
                 nreq, nfork>>

\* A live process of a service's tree spawns a child, which inherits stdout.
\* A child of AI Toolkit's launcher may be its Node.js server, which the
\* stop/restart scan for "node" processes recognises.
ProcFork(p) ==
  /\ Alive(p) /\ nfork < MaxChildren /\ Quiet
  /\ \E nd \in IF procs[p].svc = "aitoolkit" THEN BOOLEAN ELSE {FALSE} :
       procs' = [procs EXCEPT ![NewPid] =
                   [st |-> "alive", root |-> procs[p].root, parent |-> p, code |-> 0,
                    out |-> 0, node |-> nd, svc |-> procs[p].svc]]
  /\ nfork' = nfork + 1
  /\ UNCHANGED <<env, ctl, log, dialogs, browser, fs, pipe, thr, ui, sigs, resp,
                 nreq, faults>>

\* ------------------------------------------------- stop_<s>, restart_<s>
\* Both run on the Tk event thread from the first statement to the last: the
\* event loop handles no other callback until they return.
UiGoto(pc) == ui' = [ui EXCEPT !.pc = pc]
UiReturn == ui' = UiIdle /\ sigs' = <<>>

\* psutil.NoSuchProcess is caught next to the call in stop_<s> and in both AI
\* Toolkit handlers; restart_comfyui / restart_onetrainer have one
\* "except Exception" around the whole stop phase.
InnerTry(op, s) == op = "stop" \/ s = "aitoolkit"

\* p.terminate() / p.kill() as psutil reports them: delivered to a live
\* process, NoSuchProcess for one that is gone.
Sent(kind, p) == sigs' = Append(sigs, Sig(kind, p, IF Alive(p) THEN 1 ELSE 0))

\* stop_comfyui / stop_onetrainer check the handle first; stop_aitoolkit asks
\* for confirmation straight away.
NotRunning(s) == process[s] = None \/ Poll(process[s]) = "exited"

\* Variant: the answer to the confirmation prompt is not looked at.
stop_unconfirmed(s) ==
  /\ CanRequest(s)
  /\ IF s # "aitoolkit" /\ NotRunning(s)
     THEN /\ Respond(s, "stop", "not_running")
          /\ UNCHANGED <<ui, nreq>>
     ELSE /\ \E r \in {"declined", "accepted"} : Respond(s, "stop", r)
          /\ Accept
          /\ ui' = [UiIdle EXCEPT !.op = "stop", !.svc = s, !.pc = "enum"]
  /\ UNCHANGED <<env, ctl, log, dialogs, browser, fs, procs, pipe, thr, sigs, nfork,
                 faults>>

stop(s) ==
  /\ CanRequest(s)
  /\ IF s # "aitoolkit" /\ NotRunning(s)
     THEN /\ Respond(s, "stop", "not_running")
          /\ UNCHANGED <<ui, nreq>>
     ELSE \/ /\ Respond(s, "stop", "declined")
             /\ UNCHANGED <<ui, nreq>>
          \/ /\ Respond(s, "stop", "accepted")
             /\ Accept
             /\ ui' = [UiIdle EXCEPT !.op = "stop", !.svc = s, !.pc = "enum"]
  /\ UNCHANGED <<env, ctl, log, dialogs, browser, fs, procs, pipe, thr, sigs, nfork,
                 faults>>

\* restart_<s> never asks; the stop phase is entered when a live process is
\* tracked (AI Toolkit always enters it, for the scan).
restart(s) ==
  /\ CanRequest(s)
  /\ Accept
  /\ Respond(s, "restart", "accepted")
  /\ ui' = [UiIdle EXCEPT !.op = "restart", !.svc = s,
                         !.pc = IF s = "aitoolkit" \/ ~NotRunning(s)
                                THEN "enum" ELSE "start"]
  /\ UNCHANGED <<env, ctl, log, dialogs, browser, fs, procs, pipe, thr, sigs, nfork,
                 faults>>

InUi(op, s, pc) == ui.op = op /\ ui.svc = s /\ ui.pc = pc /\ Quiet

\* An exception caught by "except Exception" of the handler: stop logs it and
\* shows an error dialog; restart logs it and goes on to start.
UiCaught(op, s) ==
  /\ Log(s, "ui", Line("stop_error", 0))
  /\ dialogs' = IF op = "stop" THEN [dialogs EXCEPT ![s].err = @ + 1] ELSE dialogs
  /\ ui' = IF op = "stop" THEN UiIdle ELSE [ui EXCEPT !.pc = "start"]
  /\ sigs' = <<>>

\* The termination proper is over: stop logs success, restart sleeps 1 s and
\* starts.
UiAfter(op) == IF op = "stop" THEN "log_ok" ELSE "start"

\* except ImportError, when "import psutil" fails.
no_psutil(op, s) ==
  IF op = "restart"
  THEN UiCaught(op, s) /\ UNCHANGED resp
  ELSE IF s = "aitoolkit"
  THEN /\ Log(s, "ui", Line("no_psutil", 0))
       /\ ui' = UiIdle
       /\ sigs' = IF process[s] # None
                  THEN <<Sig("term", process[s], IF Alive(process[s]) THEN 1 ELSE 0)>>
                  ELSE <<>>
       /\ UNCHANGED <<dialogs, resp>>
  ELSE \* self.<s>_process.terminate(), then time.sleep(2) with the local
       \* name "time" unbound: the handler ends by that error.
       /\ ui' = UiIdle
       /\ sigs' = IF process[s] # None
                  THEN <<Sig("term", process[s], IF Alive(process[s]) THEN 1 ELSE 0)>>
                  ELSE <<>>
       /\ Respond(s, "stop", "raised")
       /\ UNCHANGED <<log, dialogs>>

\* Variant: the enumeration leaves the descendants out.
EnumerateRootOnly(op, s) ==
  IF process[s] # None /\ Alive(process[s])
  THEN /\ ui' = [ui EXCEPT !.pc = "term", !.parent = process[s],
                           !.todo = <<>>, !.enum = <<process[s]>>]
       /\ UNCHANGED <<log, dialogs, sigs>>
  ELSE IF s = "aitoolkit" THEN UiGoto("scan") /\ UNCHANGED <<log, dialogs, sigs>>
  ELSE UiCaught(op, s)

\* parent = psutil.Process(pid); children = parent.children(recursive=True)
Enumerate(op, s) ==
  IF s = "aitoolkit"
  THEN /\ IF process[s] # None /\ Alive(process[s])
          THEN ui' = [ui EXCEPT !.pc = "term", !.parent = process[s],
                                !.todo = Children(process[s]),
                                !.enum = Children(process[s]) \o <<process[s]>>]
          ELSE UiGoto("scan")
       /\ UNCHANGED <<log, dialogs, sigs>>
  ELSE IF process[s] = None
  THEN UiCaught(op, s)
  ELSE IF ~Alive(process[s])
  THEN IF InnerTry(op, s)
       THEN UiGoto("log_ok") /\ UNCHANGED <<log, dialogs, sigs>>
       ELSE UiCaught(op, s)
  ELSE /\ ui' = [ui EXCEPT !.pc = "term", !.parent = process[s],
                           !.todo = Children(process[s]),
                           !.enum = Children(process[s]) \o <<process[s]>>]
       /\ UNCHANGED <<log, dialogs, sigs>>

\* try: import psutil; import time; then the enumeration.
ui_enum(op, s) ==
  /\ InUi(op, s, "enum")
  /\ \E ok \in IF psutil = "unknown" THEN {"yes", "no"} ELSE {psutil} :
       /\ psutil' = ok
       /\ IF ok = "yes"
          THEN Enumerate(op, s) /\ UNCHANGED resp
          ELSE no_psutil(op, s)
  /\ UNCHANGED <<active, ctl, browser, fs, procs, pipe, thr, nreq, nfork, faults>>

\* Variant: the loop over the children signals nobody.
ui_term_child_skips(op, s) ==
  /\ InUi(op, s, "term") /\ ui.todo # <<>>
  /\ ui' = [ui EXCEPT !.todo = Tail(@)]
  /\ UNCHANGED <<env, ctl, log, dialogs, browser, fs, procs, pipe, thr, resp, nreq,
                 nfork, faults, sigs>>

\* for child in children: child.terminate()   (one iteration)
ui_term_child(op, s) ==
  /\ InUi(op, s, "term") /\ ui.todo # <<>>
  /\ LET c == Head(ui.todo) IN
     /\ Sent("term", c)
     /\ ui' = [ui EXCEPT !.todo = Tail(@),
                         !.waited = IF s = "aitoolkit" /\ Alive(c)
                                    THEN Append(@, c) ELSE @]
  /\ UNCHANGED <<env, ctl, log, dialogs, browser, fs, procs, pipe, thr, resp, nreq,
                 nfork, faults>>

\* parent.terminate(), after the loop over the children
ui_term_parent(op, s) ==
  /\ InUi(op, s, "term") /\ ui.todo = <<>>
  /\ IF Alive(ui.parent)
     THEN /\ ui' = [ui EXCEPT !.pc = IF s = "aitoolkit" THEN "scan" ELSE "wait",
                              !.waited = IF s = "aitoolkit" THEN Append(@, ui.parent)
                                         ELSE ui.enum]
          /\ Sent("term", ui.parent)
          /\ UNCHANGED <<log, dialogs>>
     ELSE IF s = "aitoolkit"
     THEN UiGoto("scan") /\ Sent("term", ui.parent) /\ UNCHANGED <<log, dialogs>>
     ELSE IF InnerTry(op, s)
     THEN UiGoto("log_ok") /\ Sent("term", ui.parent) /\ UNCHANGED <<log, dialogs>>
     ELSE UiCaught(op, s)
  /\ UNCHANGED <<env, ctl, browser, fs, procs, pipe, thr, resp, nreq, nfork,
                 faults>>

\* Variant: the scan of the AI Toolkit handlers takes every live process.
AllProcs == SortPids({p \in Pids : Alive(p)})

\* AI Toolkit only: for proc in psutil.process_iter(...): every live "node"
\* process of AI Toolkit is terminated and added to processes_killed.
NodeProcs == SortPids({p \in Pids : Alive(p) /\ procs[p].node})

ui_scan(op, s) ==
  /\ InUi(op, s, "scan")
  /\ sigs' = sigs \o [i \in 1..Len(NodeProcs) |-> Sig("term", NodeProcs[i], 1)]
  /\ ui' = [ui EXCEPT !.pc = "wait", !.waited = @ \o NodeProcs]
  /\ UNCHANGED <<env, ctl, log, dialogs, browser, fs, procs, pipe, thr, resp, nreq,
                 nfork, faults>>

\* gone, alive = psutil.wait_procs(..., timeout=3): the processes that have
\* not exited when the grace period is over.
StillAlive(q) == SelectSeq(q, LAMBDA p : Alive(p))

ui_wait(op, s) ==
  /\ InUi(op, s, "wait")
  /\ ui' = IF StillAlive(ui.waited) = <<>> THEN [ui EXCEPT !.pc = UiAfter(op)]
           ELSE [ui EXCEPT !.pc = "kill", !.todo = StillAlive(ui.waited)]
  /\ UNCHANGED <<env, ctl, log, dialogs, browser, fs, procs, pipe, thr, sigs, resp,
                 nreq, nfork, faults>>

\* for p in alive: p.kill()   (one iteration)
ui_kill(op, s) ==
  /\ InUi(op, s, "kill")
  /\ LET p == Head(ui.todo) IN
     /\ Sent("kill", p)
     /\ procs' = IF Alive(p) THEN [procs EXCEPT ![p].st = "dead", ![p].code = 1]
                 ELSE procs
     /\ ui' = [ui EXCEPT !.todo = Tail(@),
                         !.pc = IF Tail(ui.todo) = <<>> THEN UiAfter(op) ELSE @]
  /\ UNCHANGED <<env, ctl, log, dialogs, browser, fs, pipe, thr, resp, nreq, nfork,
                 faults>>

\* Variant: a Stop that ends also gives up the installation of the service.
ui_log_ok_ends_install(s) ==
  /\ InUi("stop", s, "log_ok")
  /\ Log(s, "ui", Line("stopped_ok", 0))
  /\ UiReturn
  /\ installing' = [installing EXCEPT ![s] = FALSE]
  /\ thr' = [t \in Tids |-> IF thr[t].kind = "inst" /\ thr[t].svc = s
                            THEN NoThread ELSE thr[t]]
  /\ UNCHANGED <<env, starting, process, install_btn, start_btn, dialogs, browser,
                 fs, procs, pipe, resp, nreq, nfork, faults>>

\* log_to_tab("[<s> stopped successfully]"); stop_<s> returns.
ui_log_ok(s) ==
  /\ InUi("stop", s, "log_ok")
  /\ Log(s, "ui", Line("stopped_ok", 0))
  /\ UiReturn
  /\ UNCHANGED <<env, ctl, dialogs, browser, fs, procs, pipe, thr, resp, nreq,
                 nfork, faults>>

\* restart_<s>: "# Start again": self.start_<s>()
ui_start(s) ==
  /\ InUi("restart", s, "start")
  /\ start_call(s)
  /\ UiReturn
  /\ UNCHANGED <<env, log, dialogs, browser, fs, procs, pipe, nreq, nfork,
                 faults>>

UiStep(op, s) ==
  \/ ui_enum(op, s) \/ ui_term_child(op, s) \/ ui_term_parent(op, s)
  \/ ui_scan(op, s) \/ ui_wait(op, s) \/ ui_kill(op, s)

\* The OS forgets an exited process tree nobody holds a handle to.
Reap ==
  /\ resp = NoResp /\ Garbage # {}
  /\ procs' = [p \in Pids |-> IF procs[p].root \in Garbage THEN NoProc ELSE procs[p]]
  /\ pipe' = [p \in Pids |-> IF p \in Garbage THEN <<>> ELSE pipe[p]]
  /\ UNCHANGED <<env, ctl, log, dialogs, browser, fs, thr, ui, sigs, resp, nreq,
                 nfork, faults>>

RunStep(t, s) ==
  \/ run_spawn(t, s) \/ run_pump(t, s)
  \/ run_raise(t, s) \/ run_except(t, s)
  \/ run_fin1(t, s) \/ run_fin2(t, s) \/ run_fin3(t, s)

Next ==
  \/ Ack
  \/ Reap
  \/ \E s \in Services : install(s)
  \/ \E t \in Tids, s \in Services : InstStep(t, s)
  \/ \E s \in Services : update(s)
  \/ \E t \in Tids, s \in Services : UpdStep(t, s)
  \/ \E s \in Services : start(s)
  \/ \E s \in Services : stop(s)
  \/ \E s \in Services : restart(s)
  \/ \E op \in {"stop", "restart"}, s \in Services : UiStep(op, s)
  \/ \E s \in Services : ui_log_ok(s)
  \/ \E s \in Services : ui_start(s)
  \/ \E s \in Services : open_browser(s)
  \/ \E t \in Tids, s \in Services : RunStep(t, s)
  \/ \E p \in Pids : ProcWrite(p)
  \/ \E p \in Pids : ProcExit(p)
  \/ \E p \in Pids : ProcCrash(p)
  \/ \E p \in Pids : ProcFork(p)

Spec == Init /\ [][Next]_vars

\* ------------------------------------------------------ two services at once
\* The same controller with two of its services exercised in one behaviour,
\* both installed or both not yet installed at the outset: AI Toolkit, whose
\* stop phase scans the whole process table, next to ComfyUI.
TwoActive == {"comfyui", "aitoolkit"}

InitTwo ==
  /\ active = TwoActive
  /\ psutil = "unknown"
  /\ installing = [s \in Services |-> FALSE]
  /\ starting = [s \in Services |-> FALSE]
  /\ process = [s \in Services |-> None]
  /\ install_btn = [s \in Services |-> TRUE]
  /\ start_btn = [s \in Services |-> TRUE]
  /\ log = [s \in Services |-> [ui |-> <<>>, run |-> <<>>, inst |-> <<>>, upd |-> <<>>]]
  /\ dialogs = [s \in Services |-> [err |-> 0, ok |-> 0]]
  /\ browser = [s \in Services |-> [pending |-> 0, opened |-> 0]]
  /\ fs \in {[s \in Services |-> {}],
             [s \in Services |-> IF s \in TwoActive THEN Installed(s) ELSE {}]}
  /\ procs = [p \in Pids |-> NoProc]
  /\ pipe = [p \in Pids |-> <<>>]
  /\ thr = [t \in Tids |-> NoThread]
  /\ ui = UiIdle
  /\ sigs = <<>>
  /\ resp = NoResp
  /\ nreq = 0
  /\ nfork = 0
  /\ faults = 0

SpecTwo == InitTwo /\ [][Next]_vars

\* ================================================================== claims
\* The working states of a service as the controller records them: the two
\* flags, and the stop / restart handler being executed for the service.
Stopping(s) == ui.op = "stop" /\ ui.svc = s
Restarting(s) == ui.op = "restart" /\ ui.svc = s
RunThreads(s) == {t \in Tids : thr[t].kind = "run" /\ thr[t].svc = s}
InstThreads(s) == {t \in Tids : thr[t].kind = "inst" /\ thr[t].svc = s}
Last(q) == q[Len(q)]
Kinds(q) == {q[i].k : i \in 1..Len(q)}

\* The step is a call of start_<s> / install_<s>: the call's response appears.
StartCalled(s) == resp = NoResp /\ resp'.op = "start" /\ resp'.svc = s
InstallCalled(s) == resp = NoResp /\ resp'.op = "install" /\ resp'.svc = s

\* At most one run thread of a service has not yet reset the starting flag.
OneRun == \A s \in Services :
            Cardinality({t \in RunThreads(s) : thr[t].pc # "fin3"}) <= 1

\* C1: a Start requested while the service is starting or running gets the
\* "already starting" response and launches nothing: no thread, no process,
\* handle and flag untouched; so one run, and one spawned process, is in
\* flight per service.
C1_SecondStartRejected ==
  [][/\ \A s \in Services :
          StartCalled(s) /\ starting[s] =>
            /\ resp'.result = "already_starting"
            /\ UNCHANGED <<thr, procs, process, starting>>
     /\ OneRun']_vars

\* A second Start has been rejected while the first run's process is alive.
C1_Witness ==
  \E s \in Services :
    /\ resp = [svc |-> s, op |-> "start", result |-> "already_starting"]
    /\ process[s] # None /\ Alive(process[s])

\* C2: a service is never installing and starting/running at the same time.
C2_NotInstallingAndStarting ==
  \A s \in Services : ~(installing[s] /\ starting[s])

\* C3: an Install requested while the service is starting or running is
\* rejected and has no effect: no installer thread, flag and disk unchanged.
C3_InstallWhileStartedRejected ==
  [][\A s \in Services :
       InstallCalled(s) /\ starting[s] =>
         /\ resp'.result # "accepted"
         /\ UNCHANGED <<installing, thr, fs>>]_vars

\* C4: a Start requested while the service's installer is running is
\* rejected and launches no run thread.
C4_StartWhileInstallingRejected ==
  [][\A s \in Services :
       StartCalled(s) /\ installing[s] =>
         /\ resp'.result # "accepted"
         /\ UNCHANGED <<thr, starting>>]_vars

\* C5 as stated: the handle is non-null iff the service is starting, running
\* or stopping.
C5_HandleIffActive ==
  \A s \in Services : process[s] # None <=> (starting[s] \/ Stopping(s))

\* C5, amended: the handle is non-null exactly while the run thread of the
\* service is between its spawn and the first statement of its cleanup, and
\* then the service is marked starting; it is null before the spawn, after a
\* failed spawn and in the rest of the cleanup, where the mark is still set.
C5_HandleIffSpawned ==
  \A s \in Services :
    /\ process[s] # None <=>
         \E t \in RunThreads(s) : /\ thr[t].pid # None
                                  /\ thr[t].pid = process[s]
                                  /\ thr[t].pc \in {"pump", "except", "fin1"}
    /\ process[s] # None => starting[s]

\* A service marked starting whose handle has been cleared by the cleanup.
C5_Witness ==
  \E s \in Services : \E t \in RunThreads(s) :
    starting[s] /\ process[s] = None /\ thr[t].pc = "fin2" /\ thr[t].pid # None

\* The positions of the UI thread inside the termination of a process tree.
TermPcs == {"enum", "term", "scan", "wait", "kill"}

\* C6: when the termination of Stop / Restart is over, the root and every
\* descendant enumerated for it are not alive.
C6_TreeGoneOnReturn ==
  [][(ui.op \in {"stop", "restart"} /\ ui.pc \in TermPcs /\ ui'.pc \notin TermPcs)
       => \A p \in Range(ui.enum) : procs'[p].st # "alive"]_vars

\* C7: a set working flag is owned by a live background unit that has not yet
\* passed the reset of the flag; when the unit is gone the flag is reset.
C7_FlagOwned ==
  \A s \in Services :
    /\ starting[s] => \E t \in RunThreads(s) : thr[t].pc # "fin3"
    /\ installing[s] => \E t \in InstThreads(s) : thr[t].pc # "fin2"

\* A run thread has ended through its exception handler, and the flag is reset.
C7_Witness ==
  \E s \in Services :
    /\ "ERROR" \in Kinds(log[s].run)
    /\ RunThreads(s) = {} /\ ~starting[s]

\* C8: when the pump has ended and the exit line is logged, the lines logged
\* for the run are the lines the process wrote, in order.
C8_AllLinesLogged ==
  \A s \in Services : \A t \in RunThreads(s) :
    (thr[t].pc = "fin1" /\ Last(log[s].run).k = "exit") =>
      LET q == log[s].run
          n == procs[thr[t].pid].out
          b == Len(q) - 1 - n
      IN /\ b >= 0
         /\ \A i \in 1..n : q[b + i] = Line("out", i)
         /\ b > 0 => q[b].k # "out"

\* The installer's last executed step, once it has executed one.
LastStep(t) == IF thr[t].pc = "step" \/ thr[t].i > Len(Steps(thr[t].svc))
               THEN thr[t].i - 1 ELSE thr[t].i
Failed(t, kinds) ==
  /\ thr[t].kind = "inst" /\ LastStep(t) >= 1
  /\ Steps(thr[t].svc)[LastStep(t)].kind \in kinds
  /\ thr[t].res \in {"fail", "quiet", "timeout"}

\* C9: after a Fatal step has exited non-zero the installer runs no further
\* step; when it reaches its cleanup the failure has been reported (the last
\* log line of the installer is an error line, not the success line, and an
\* error dialog was shown), and the cleanup resets the installing flag.
C9_FatalAborts ==
  \A s \in Services : \A t \in InstThreads(s) :
    Failed(t, FatalKinds) =>
      /\ thr[t].pc \in {"except", "fin1", "fin2"}
      /\ thr[t].pc = "fin1" =>
           /\ log[s].inst # <<>>
           /\ Last(log[s].inst).k \in {"step_error", "ERROR"}
           /\ dialogs[s].err >= 1
      /\ thr[t].pc = "fin2" => (~installing[s] \/ Cardinality(InstThreads(s)) > 1)

\* An installer in its cleanup after a Fatal step failed.
C9_Witness ==
  \E s \in Services : \E t \in InstThreads(s) :
    Failed(t, FatalKinds) /\ thr[t].pc = "fin1" /\ thr[t].i < Len(Steps(s))

\* C10: after a Warn step has exited non-zero the installer goes on to the
\* next step (or, after the last step, to the success report) and not to its
\* exception handler; an installer that has passed its last step reports
\* success.
C10_WarnContinues ==
  \A s \in Services : \A t \in InstThreads(s) :
    /\ Failed(t, WarnKinds) =>
         /\ thr[t].i = LastStep(t) + 1
         /\ thr[t].pc = "step" \/ thr[t].i > Len(Steps(s))
    /\ (thr[t].pc = "fin1" /\ thr[t].i > Len(Steps(s))) =>
         /\ Last(log[s].inst).k = "complete"
         /\ dialogs[s].ok >= 1

\* An installer has reported success although a Warn step before the last
\* one exited non-zero.
C10_Witness ==
  \E s \in Services : \E t \in InstThreads(s) :
    /\ thr[t].pc = "fin1" /\ thr[t].i > Len(Steps(s))
    /\ Last(log[s].inst).k = "complete"
    /\ \E j \in 1..(Len(log[s].inst) - 1) :
         /\ log[s].inst[j].k \in {"step_error", "WARNING"}
         /\ log[s].inst[j].n < Len(Steps(s))

\* C11: a Start of a service whose install marker is absent launches nothing:
\* no thread, no process, flags, handle and buttons untouched; the call
\* returns at once with the "not installed" report when the service is not
\* marked starting.
C11_StartNotInstalled ==
  [][\A s \in Services :
       StartCalled(s) /\ StartMarker(s) \notin fs[s] =>
         /\ resp'.result \in {"not_installed", "already_starting"}
         /\ ~starting[s] => resp'.result = "not_installed"
         /\ UNCHANGED <<thr, procs, ctl>>]_vars

\* A Start of an idle service that is not installed has been refused.
C11_Witness ==
  \E s \in Services :
    /\ resp = [svc |-> s, op |-> "start", result |-> "not_installed"]
    /\ ~starting[s] /\ ~installing[s] /\ process[s] = None
    /\ StartMarker(s) \notin fs[s] /\ RunThreads(s) = {}

\* The step is a call of stop_<s> / restart_<s> from the event loop.
StopCalled(s) == ui.op = "idle" /\ resp = NoResp /\ resp'.op = "stop" /\ resp'.svc = s
RestartCalled(s) == ui.op = "idle" /\ resp = NoResp /\ resp'.op = "restart" /\ resp'.svc = s

\* C12: a Stop of a service whose tracked process has exited reports "not
\* running", starts no termination and leaves the service idle with the
\* handle cleared.
C12_StopAfterExitIdle ==
  [][\A s \in Services :
       (StopCalled(s) /\ process[s] # None /\ Dead(process[s])) =>
         /\ resp'.result = "not_running"
         /\ ui'.op = "idle"
         /\ process'[s] = None /\ ~starting'[s]]_vars

\* The service is idle: no flag set, no handle tracked, no thread of its own.
Idle(s) ==
  /\ ~installing[s] /\ ~starting[s] /\ process[s] = None
  /\ RunThreads(s) = {} /\ InstThreads(s) = {}

\* C13: a Stop or Restart of an idle service is refused on the spot: the
\* handler returns without entering its stop phase or going on to start.
C13_StopRestartFromIdleRejected ==
  [][\A s \in Services :
       ((StopCalled(s) \/ RestartCalled(s)) /\ Idle(s)) =>
         /\ resp'.result \notin {"accepted"}
         /\ ui'.op = "idle"]_vars

\* C14: when Restart has gone through its stop phase on an installed service,
\* its call of start_<s> is accepted and launches the one new run.
C14_RestartStartsAgain ==
  [][\A s \in Services :
       (/\ Restarting(s) /\ ui.pc = "start" /\ ui.enum # <<>>
        /\ ui'.op = "idle" /\ StartMarker(s) \in fs[s]) =>
         /\ resp'.result = "accepted"
         /\ starting'[s]
         /\ \E t \in Tids : thr[t].kind = "none" /\ thr'[t].kind = "run"
                            /\ thr'[t].svc = s]_vars

\* C15: when Restart calls start_<s>, no process enumerated by its stop phase
\* is alive any more.
C15_StartAfterTermination ==
  [][\A s \in Services :
       (Restarting(s) /\ ui.pc = "start" /\ ui'.op = "idle") =>
         \A p \in Range(ui.enum) : ~Alive(p)]_vars

\* C16: once the tracked root process has exited, the run thread is not held
\* up in its read of the output stream: a line or the end-of-stream is there
\* for it, so that it goes on to its cleanup, which clears the handle and the
\* flag.
C16_ExitUnblocksRun ==
  \A s \in Services : \A t \in RunThreads(s) :
    (thr[t].pc = "pump" /\ Dead(thr[t].pid)) =>
      (pipe[thr[t].pid] # <<>> \/ Holders(thr[t].pid) = {})

\* C17: when a confirmed Stop returns after its termination, the service is
\* idle: no handle is tracked and the starting flag is reset.
C17_IdleWhenStopReturns ==
  [][\A s \in Services :
       (Stopping(s) /\ ui.pc = "log_ok" /\ ui'.op = "idle") =>
         /\ process'[s] = None
         /\ ~starting'[s]]_vars

\* C18: a live process spawned by a Start is the one its service tracks.
C18_LiveProcessTracked ==
  \A p \in Pids :
    (Alive(p) /\ procs[p].root = p) => process[procs[p].svc] = p

\* C19: the Tk event thread is never the one that sits in the grace-period
\* wait of a termination (psutil.wait_procs(..., timeout=3)).
C19_UiNeverWaits == ui.pc # "wait"

\* At most one installer of a service has not yet reset the installing flag.
OneInstall == \A s \in Services :
                Cardinality({t \in InstThreads(s) : thr[t].pc # "fin2"}) <= 1

\* C20: an Install requested while the service's installing flag is set gets
\* the "already in progress" response and changes nothing: no thread, disk,
\* flags, buttons, log and dialogs as before, so the installer in flight goes
\* on from where it was; and one installer per service is in flight.
C20_SecondInstallRejected ==
  [][/\ \A s \in Services :
          InstallCalled(s) /\ installing[s] =>
            /\ resp'.result = "already_installing"
            /\ UNCHANGED <<thr, fs, ctl, log, dialogs, procs>>
     /\ OneInstall']_vars

\* A second Install has been refused while the installer is past its first
\* step and has steps left.
C20_Witness ==
  \E s \in Services : \E t \in InstThreads(s) :
    /\ resp = [svc |-> s, op |-> "install", result |-> "already_installing"]
    /\ installing[s] /\ thr[t].pc = "step"
    /\ thr[t].i > 1 /\ thr[t].i <= Len(Steps(s))

\* What one step adds to the browser callbacks scheduled for service s, and
\* whether the step spawns a root process of s.
Scheduled(s) == browser[s].pending + browser[s].opened
Spawned(s) == \E p \in Pids : /\ procs[p].st = "none" /\ procs'[p].st = "alive"
                              /\ procs'[p].root = p /\ procs'[p].svc = s

\* C21 as stated: for every service, a step schedules one browser callback
\* when it spawns the service's process and none otherwise.
C21_BrowserOncePerSpawn ==
  [][\A s \in Services :
       Scheduled(s)' = Scheduled(s) + (IF Spawned(s) THEN 1 ELSE 0)]_vars

\* C21, amended: that holds for ComfyUI and OneTrainer; the controller never
\* schedules a callback for AI Toolkit.  A scheduled callback is run once.
C21_BrowserOncePerSpawnButAitoolkit ==
  [][\A s \in Services :
       /\ Scheduled(s)' =
            Scheduled(s) + (IF Spawned(s) /\ s # "aitoolkit" THEN 1 ELSE 0)
       /\ browser'[s].opened \in {browser[s].opened, browser[s].opened + 1}
       /\ s = "aitoolkit" => Scheduled(s) = 0]_vars

\* The browser has been opened, once, for a run whose process is alive.
C21_Witness ==
  \E s \in Services :
    /\ browser[s] = [pending |-> 0, opened |-> 1]
    /\ process[s] # None /\ Alive(process[s])

\* C22: an installation step that has exited non-zero has left a warning or
\* error line in the log (once the exception handler, if the failure went
\* there, has run), and no line that reports the step as completed.
C22_FailureLogged ==
  \A s \in Services : \A t \in InstThreads(s) :
    (LastStep(t) >= 1 /\ thr[t].res \in {"fail", "quiet"} /\ thr[t].pc # "except") =>
      /\ \E j \in 1..Len(log[s].inst) :
           \/ /\ log[s].inst[j].k \in {"step_error", "WARNING"}
              /\ log[s].inst[j].n = LastStep(t)
           \/ log[s].inst[j].k = "ERROR"
      /\ \A j \in 1..Len(log[s].inst) :
           ~(log[s].inst[j].k = "completed" /\ log[s].inst[j].n = LastStep(t))

\* C23: after a step has run into its timeout the installer has logged a
\* WARNING line for the step and goes on to the next step (or, after the last
\* step, to the success report), not to its exception handler.
C23_TimeoutWarns ==
  \A s \in Services : \A t \in InstThreads(s) :
    thr[t].res = "timeout" =>
      /\ thr[t].i = LastStep(t) + 1
      /\ thr[t].pc = "step" \/ thr[t].i > Len(Steps(s))
      /\ thr[t].pc # "except"
      /\ \E j \in 1..Len(log[s].inst) :
           log[s].inst[j] = Line("WARNING", LastStep(t))

\* An installer has reported success after its last step timed out.
C23_Witness ==
  \E s \in Services : \E t \in InstThreads(s) :
    /\ thr[t].res = "timeout" /\ thr[t].pc = "fin1"
    /\ Last(log[s].inst).k = "complete"

\* The services a step acts for: the service of the handler that is called or
\* is being executed on the event thread, and the service of the thread that
\* takes the step.  Steps of the OS processes act for no service.
Actors ==
  {s \in Services :
     \/ resp = NoResp /\ resp'.svc = s
     \/ ui.svc = s /\ ui' # ui
     \/ \E t \in Tids : thr'[t] # thr[t] /\ s \in {thr[t].svc, thr'[t].svc}}

\* The terminate() / kill() calls a step delivers to live processes.
Delivered ==
  LET new == IF Len(sigs') > Len(sigs)
             THEN {sigs'[j] : j \in (Len(sigs) + 1)..Len(sigs')}
             ELSE IF sigs' # sigs THEN Range(sigs') ELSE {}
  IN {g \in new : g.ok = 1}

StopStep == (ui.op = "stop" /\ ui' # ui) \/ \E s \in Services : StopCalled(s)

\* C25: no step of a Stop changes an installing flag, the disk, or the
\* position, step index and last result of an installer thread.
C25_StopLeavesInstaller ==
  [][StopStep =>
       /\ UNCHANGED <<installing, install_btn, fs>>
       /\ \A t \in Tids : thr[t].kind = "inst" => thr'[t] = thr[t]]_vars

\* A confirmed Stop is in its grace-period wait while the installer of the
\* same service is past its first step with steps left.
C25_Witness ==
  \E s \in Services : \E t \in InstThreads(s) :
    /\ Stopping(s) /\ ui.pc = "wait" /\ installing[s]
    /\ thr[t].pc = "step" /\ thr[t].i > 1 /\ thr[t].i <= Len(Steps(s))

IsPrefix(a, b) == Len(a) <= Len(b) /\ SubSeq(b, 1, Len(a)) = a

\* C27: every step leaves each producer's part of each service's log as it
\* was or extends it at the end.
C27_LogAppendOnly ==
  [][\A s \in Services : \A k \in {"ui", "run", "inst", "upd"} :
       IsPrefix(log[s][k], log'[s][k])]_vars

\* A run thread has logged the line its process wrote and then the exit line.
C27_Witness ==
  \E s \in Services : log[s].run = <<Line("out", 1), Line("exit", 0)>>

\* C28: in the termination run in progress, a terminate() of the root comes
\* after a terminate() of every enumerated descendant.
C28_ChildrenBeforeRoot ==
  \A j \in 1..Len(sigs) :
    (ui.parent # None /\ sigs[j].k = "term" /\ sigs[j].p = ui.parent) =>
      \A c \in Range(ui.enum) \ {ui.parent} :
        \E i \in 1..(j - 1) : sigs[i].k = "term" /\ sigs[i].p = c

\* The root has been signalled after its enumerated child.
C28_Witness ==
  /\ ui.parent # None /\ Len(ui.enum) = 2 /\ Len(sigs) >= 2
  /\ sigs[1] = Sig("term", ui.enum[1], 1)
  /\ sigs[2] = Sig("term", ui.parent, 1)

\* C29: when terminate() of the root meets "no such process" while an
\* enumerated descendant is still alive, the handler goes on to the wait (for
\* AI Toolkit through the scan), and so to the kill of what is left alive.
C29_NoSuchProcessGoesOn ==
  [][(/\ ui.op \in {"stop", "restart"} /\ ui.pc = "term" /\ ui.todo = <<>>
      /\ ui' # ui /\ ~Alive(ui.parent)
      /\ \E c \in Range(ui.enum) : Alive(c)) =>
       ui'.pc \in {"scan", "wait"}]_vars

\* The processes terminate() has been called on in the termination run.
TermTargets == {sigs[j].p : j \in {i \in 1..Len(sigs) : sigs[i].k = "term"}}

\* C30 as stated: when the graceful signals of a run are out, they have gone
\* to the processes enumerated for the run and to no other.
C30_SignalledAreEnumerated ==
  ui.pc = "wait" => TermTargets = Range(ui.enum)

\* C30, amended: every run enumerates anew, taking the root and the
\* descendants psutil finds at that moment; ComfyUI and OneTrainer signal
\* those and no other process, AI Toolkit signals in addition the live node
\* processes its scan finds, enumerated or not.
C30_EnumeratedAfresh ==
  [][/\ (ui.pc = "enum" /\ ui'.pc = "term") =>
          ui'.enum = Children(process[ui.svc]) \o <<process[ui.svc]>>
     /\ ui'.pc = "wait" =>
          /\ Range(ui'.enum) \subseteq TermTargets'
          /\ ui'.svc # "aitoolkit" => TermTargets' = Range(ui'.enum)
          /\ \A p \in TermTargets' \ Range(ui'.enum) : procs'[p].node]_vars

\* A child forked after the start has been enumerated and signalled with the
\* root.
C30_Witness ==
  /\ ui.pc = "wait" /\ ui.svc # "aitoolkit" /\ Len(ui.enum) = 2
  /\ TermTargets = Range(ui.enum)
  /\ procs[ui.enum[1]].parent = ui.enum[2]

\* C31: a Stop whose confirmation prompt is declined sends no signal, starts
\* no termination run and leaves the flags, the handle, the buttons and the
\* log of every service as they were; a Restart is never declined: it runs
\* without asking.
C31_DeclinedStopChangesNothing ==
  [][/\ (resp' # resp /\ resp'.op = "stop" /\ resp'.result = "declined") =>
          UNCHANGED <<ctl, log, dialogs, procs, pipe, thr, ui, sigs, nreq>>
     /\ (resp' # resp /\ resp'.op = "restart") =>
          (resp'.result = "accepted" /\ ui'.op = "restart")]_vars

\* The Stop of a service with a live tracked process has just been declined.
C31_Witness ==
  /\ resp.op = "stop" /\ resp.result = "declined"
  /\ process[resp.svc] # None /\ Alive(process[resp.svc]) /\ starting[resp.svc]
  /\ sigs = <<>> /\ ui = UiIdle

\* C32: a run whose process has exited with a non-zero code is resolved: the
\* run thread has logged the exit (or the error) and is in its cleanup, which
\* clears the handle and the flag, or it has what it needs to get there, a
\* line or the end-of-stream to read.
C32_NonZeroExitResolved ==
  \A s \in Services : \A t \in RunThreads(s) :
    LET p == thr[t].pid IN
      (p # 0 /\ Dead(p) /\ procs[p].code # 0) =>
        \/ /\ thr[t].pc \in {"fin1", "fin2", "fin3"}
           /\ log[s].run # <<>> /\ Last(log[s].run).k \in {"exit", "ERROR"}
        \/ thr[t].pc = "except"
        \/ thr[t].pc = "pump" /\ (pipe[p] # <<>> \/ Holders(p) = {})

\* C33: while the Start button of a service is enabled, the service is neither
\* starting nor running: its flag is reset and no handle is tracked.
C33_StartEnabledOnlyWhenIdle ==
  \A s \in Services : start_btn[s] => (~starting[s] /\ process[s] = None)

\* C34: a tracked handle implies the starting flag; a handle is stored only
\* where none was tracked, so no spawn overwrites the handle of another.
C34_HandleImpliesStarting ==
  [][\A s \in Services :
       /\ process'[s] # None => starting'[s]
       /\ (process'[s] # process[s] /\ process'[s] # None) => process[s] = None]_vars

\* A second run of a service has spawned its process while the thread of the
\* first run, which cleared the handle and the flag, is about to end.
C34_Witness ==
  \E s \in Services : \E t1, t2 \in RunThreads(s) :
    /\ thr[t1].pc = "fin3" /\ thr[t2].pc = "pump"
    /\ process[s] = thr[t2].pid /\ Alive(process[s]) /\ starting[s]

\* C35: a confirmed Stop that finds psutil missing ends by itself: the root
\* has been sent terminate(), it is no longer alive when the handler returns,
\* the handler has logged that the service stopped, and no error leaves it.
C35_FallbackStopsRoot ==
  [][\A s \in Services :
       (/\ Stopping(s) /\ ui.pc = "enum" /\ ui' # ui /\ psutil' = "no"
        /\ process[s] # None /\ Alive(process[s])) =>
         /\ ui'.op = "idle"
         /\ \E i \in 1..Len(sigs') : sigs'[i] = Sig("term", process[s], 1)
         /\ ~(procs'[process[s]].st = "alive")
         /\ log'[s].ui # log[s].ui /\ Last(log'[s].ui).k \in {"stopped", "stopped_ok"}
         /\ resp'.result # "raised"]_vars

====
